---- MODULE Spec2Model ----
(***************************************************************************)
(* Model of gomiabdns: the Mail-In-A-Box DNS API client library            *)
(* (package gomiabdns) and its command line front end (cmd/miabdns).       *)
(*                                                                         *)
(* The library keeps one package-level variable, apikey, shared by every   *)
(* Client of the process.  Each exported method validates its arguments,   *)
(* calls doRequest, which calls doLogin (one HTTP round trip when apikey   *)
(* is empty), re-reads apikey and then performs the operation's own HTTP   *)
(* round trip.  A caller's position inside such a call is pc[c]; the       *)
(* steps are cut at the HTTP round trips and at the reads and writes of    *)
(* the shared apikey.                                                      *)
(*                                                                         *)
(* Go strings are TLA+ strings, except the privileges text, on which the   *)
(* code runs a substring search: that one is a sequence of characters.     *)
(* A Go error is the sequence of the pieces its message is built from;     *)
(* the nil error is the empty sequence.                                    *)
(***************************************************************************)
EXTENDS Integers, Sequences, FiniteSets, TLC

\* ------------------------------------------------------------------------
\* Bounds of the model
\* ------------------------------------------------------------------------

\* number of library calls begun in one run of a library specification
MaxOps == 3

\* number of library calls begun in one run with two uncoordinated callers
MaxConcOps == 2

\* ------------------------------------------------------------------------
\* Small input sets
\* ------------------------------------------------------------------------

Callers == {1, 2}

Names == {"", "host"}
RTypes == {"", "A"}
Values == {"", "1.2.3.4"}
Zones == {"", "example.com"}

BaseUrl == "https://box/admin"

NoError == <<>>
\* a returned value: the zero value (nil slice, empty string), or its elements
NoValue == [nil |-> TRUE, elems |-> <<>>]
Slice(e) == [nil |-> FALSE, elems |-> e]
NoBody == [k |-> "none"]

\* ------------------------------------------------------------------------
\* JSON documents and bodies
\* ------------------------------------------------------------------------

JNull == [k |-> "null"]
JStr(s) == [k |-> "string", v |-> s]
JNum(n) == [k |-> "number", v |-> n]
JArr(s) == [k |-> "array", v |-> s]
JObj(f) == [k |-> "object", v |-> f]
\* bytes that are not a JSON document
Raw(t) == [k |-> "text", v |-> t]

\* json.Unmarshal into a Go string (RecordType and DNSZone are strings)
UnmarshalString(j, T) ==
    IF j.k = "string" THEN [err |-> NoError, val |-> j.v]
    ELSE IF j.k = "null" THEN [err |-> NoError, val |-> ""]
    ELSE [err |-> <<"json: cannot unmarshal ", j.k, " into Go value of type ", T>>, val |-> ""]

\* json.Unmarshal into a Go int
UnmarshalInt(j, T) ==
    IF j.k = "number" THEN [err |-> NoError, val |-> j.v]
    ELSE IF j.k = "null" THEN [err |-> NoError, val |-> 0]
    ELSE [err |-> <<"json: cannot unmarshal ", j.k, " into Go value of type ", T>>, val |-> 0]

\* the value of a key of a JSON object, null when the key is absent
Field(f, key) == IF key \in DOMAIN f THEN f[key] ELSE JNull

\* the first error of a sequence of decoding results, nil when there is none
RECURSIVE FirstErr(_)
FirstErr(rs) ==
    IF rs = <<>> THEN NoError
    ELSE IF Head(rs).err # NoError THEN Head(rs).err
    ELSE FirstErr(Tail(rs))

\* json.Unmarshal into the anonymous struct DNSRecord.SortOrder
UnmarshalSortOrder(j) ==
    IF j.k = "object" THEN
        LET c == UnmarshalInt(Field(j.v, "created"), "int")
            q == UnmarshalInt(Field(j.v, "qname"), "int")
        IN  [err |-> FirstErr(<<c, q>>),
             val |-> [ByCreated |-> c.val, ByName |-> q.val]]
    ELSE IF j.k = "null" THEN [err |-> NoError, val |-> [ByCreated |-> 0, ByName |-> 0]]
    ELSE [err |-> <<"json: cannot unmarshal ", j.k, " into Go value of type ", "struct">>,
          val |-> [ByCreated |-> 0, ByName |-> 0]]

ZeroRecord ==
    [QualifiedName |-> "", RecordType |-> "",
     SortOrder |-> [ByCreated |-> 0, ByName |-> 0], Value |-> "", Zone |-> ""]

\* json.Unmarshal into a DNSRecord
UnmarshalDNSRecord(j) ==
    IF j.k = "object" THEN
        LET q == UnmarshalString(Field(j.v, "qname"), "string")
            t == UnmarshalString(Field(j.v, "rtype"), "gomiabdns.RecordType")
            s == UnmarshalSortOrder(Field(j.v, "sort-order"))
            v == UnmarshalString(Field(j.v, "value"), "string")
            z == UnmarshalString(Field(j.v, "zone"), "string")
        IN  [err |-> FirstErr(<<q, t, s, v, z>>),
             val |-> [QualifiedName |-> q.val, RecordType |-> t.val,
                      SortOrder |-> s.val, Value |-> v.val, Zone |-> z.val]]
    ELSE IF j.k = "null" THEN [err |-> NoError, val |-> ZeroRecord]
    ELSE [err |-> <<"json: cannot unmarshal ", j.k, " into Go value of type ", "gomiabdns.DNSRecord">>,
          val |-> ZeroRecord]

\* json.Unmarshal(data, &result) with result a []DNSRecord
UnmarshalRecordSlice(data) ==
    IF data.k = "text" THEN [err |-> <<"json: syntax error">>, val |-> NoValue]
    ELSE IF data.k = "array" THEN
        LET rs == [i \in 1..Len(data.v) |-> UnmarshalDNSRecord(data.v[i])]
        IN  [err |-> FirstErr(rs), val |-> Slice([i \in 1..Len(rs) |-> rs[i].val])]
    ELSE IF data.k = "null" THEN [err |-> NoError, val |-> NoValue]
    ELSE [err |-> <<"json: cannot unmarshal ", data.k, " into Go value of type ", "[]gomiabdns.DNSRecord">>,
          val |-> NoValue]

\* json.Unmarshal(data, &result) with result a []DNSZone
UnmarshalZoneSlice(data) ==
    IF data.k = "text" THEN [err |-> <<"json: syntax error">>, val |-> NoValue]
    ELSE IF data.k = "array" THEN
        LET rs == [i \in 1..Len(data.v) |-> UnmarshalString(data.v[i], "gomiabdns.DNSZone")]
        IN  [err |-> FirstErr(rs), val |-> Slice([i \in 1..Len(rs) |-> rs[i].val])]
    ELSE IF data.k = "null" THEN [err |-> NoError, val |-> NoValue]
    ELSE [err |-> <<"json: cannot unmarshal ", data.k, " into Go value of type ", "[]gomiabdns.DNSZone">>,
          val |-> NoValue]

\* json.Unmarshal(data, &errorResult) with errorResult an APIStatus
UnmarshalAPIStatus(data) ==
    IF data.k = "text" THEN [err |-> <<"json: syntax error">>, val |-> [Status |-> "", Reason |-> ""]]
    ELSE IF data.k = "object" THEN
        LET s == UnmarshalString(Field(data.v, "status"), "string")
            r == UnmarshalString(Field(data.v, "reason"), "string")
        IN  [err |-> FirstErr(<<s, r>>), val |-> [Status |-> s.val, Reason |-> r.val]]
    ELSE IF data.k = "null" THEN [err |-> NoError, val |-> [Status |-> "", Reason |-> ""]]
    ELSE [err |-> <<"json: cannot unmarshal ", data.k, " into Go value of type ", "gomiabdns.APIStatus">>,
          val |-> [Status |-> "", Reason |-> ""]]

\* an unmarshalRecords that tries the status object first
unmarshalRecords_StatusFirst(data) ==
    LET r == UnmarshalRecordSlice(data)
        e == UnmarshalAPIStatus(data)
    IN  IF e.err = NoError
        THEN [val |-> NoValue, err |-> <<"Error while decoding json: ", e.val.Reason>>]
        ELSE IF r.err # NoError THEN [val |-> NoValue, err |-> r.err]
        ELSE [val |-> r.val, err |-> NoError]

\* unmarshalRecords: the record array, else the status object's reason, else
\* the error of the first attempt
unmarshalRecords(data) ==
    LET r == UnmarshalRecordSlice(data)
        e == UnmarshalAPIStatus(data)
    IN  IF r.err # NoError THEN
            IF e.err # NoError THEN [val |-> NoValue, err |-> r.err]
            ELSE [val |-> NoValue, err |-> <<"Error while decoding json: ", e.val.Reason>>]
        ELSE [val |-> r.val, err |-> NoError]

\* unmarshalZones: as unmarshalRecords, for an array of zone names
unmarshalZones(data) ==
    LET r == UnmarshalZoneSlice(data)
        e == UnmarshalAPIStatus(data)
    IN  IF r.err # NoError THEN
            IF e.err # NoError THEN [val |-> NoValue, err |-> r.err]
            ELSE [val |-> NoValue, err |-> <<"Error while decoding json: ", e.val.Reason>>]
        ELSE [val |-> r.val, err |-> NoError]

\* ------------------------------------------------------------------------
\* Response bodies the server may send to an operation request
\* ------------------------------------------------------------------------

RecordJSON ==
    JObj([qname |-> JStr("h.example.com"), rtype |-> JStr("A"),
          value |-> JStr("1.2.3.4"), zone |-> JStr("example.com")]
         @@ ("sort-order" :> JObj([created |-> JNum(1), qname |-> JNum(1)])))

OpBodies ==
    << JArr(<<RecordJSON>>),
       JArr(<<>>),
       JArr(<<JStr("example.com")>>),
       JNull,
       JObj([status |-> JStr("invalid"), reason |-> JStr("bad session")]),
       JObj([status |-> JStr("error"), reason |-> JNum(5)]),
       JObj([status |-> JStr("ok")]),
       JStr("updated DNS: example.com"),
       Raw("updated DNS: example.com") >>

\* ------------------------------------------------------------------------
\* Pure helpers of the library
\* ------------------------------------------------------------------------

\* url.JoinPath drops empty elements
RECURSIVE JoinPath(_, _)
JoinPath(p, elems) ==
    IF elems = <<>> THEN p
    ELSE IF Head(elems) = "" THEN JoinPath(p, Tail(elems))
    ELSE JoinPath(Append(p, Head(elems)), Tail(elems))

getApiWithPath(apiUrl, name, rtype) ==
    LET u == JoinPath(apiUrl, <<"dns", "custom">>)
    IN  IF name # "" THEN
            IF rtype # "" THEN JoinPath(u, <<name, rtype>>)
            ELSE JoinPath(u, <<name>>)
        ELSE u

\* strings.Contains on sequences of characters
Contains(s, sub) ==
    \E i \in 0..(Len(s) - Len(sub)) : SubSeq(s, i + 1, i + Len(sub)) = sub

AdminStr == <<"a", "d", "m", "i", "n">>

\* the raw JSON text of an array of strings, as characters
RECURSIVE RawElems(_)
RawElems(elems) ==
    IF elems = <<>> THEN <<>>
    ELSE <<"\"">> \o Head(elems).v \o <<"\"">>
         \o (IF Len(elems) > 1 THEN <<",">> ELSE <<>>) \o RawElems(Tail(elems))

\* gjson.Get(body, key).String(): the string of a JSON string, the empty
\* string when the key is absent or null
GjsonString(body, key) ==
    LET j == body[key] IN IF j.k = "string" THEN j.v ELSE ""

\* gjson.Get(body, key).String() as characters: an array yields its raw text
GjsonChars(body, key) ==
    LET j == body[key]
    IN  IF j.k = "string" THEN j.v
        ELSE IF j.k = "array" THEN <<"[">> \o RawElems(j.v) \o <<"]">>
        ELSE <<>>

\* totp.GenerateCode fails on a secret that is not base32
TotpSecrets == {"", "JBSWY3DPEHPK3PXP", "not base32!"}
GenerateCode(secret) ==
    IF secret = "JBSWY3DPEHPK3PXP" THEN [token |-> "123456", err |-> NoError]
    ELSE [token |-> "", err |-> <<"Decoding of secret as base32 failed.">>]

\* ------------------------------------------------------------------------
\* Login response bodies: the fields doLogin looks up (JNull: absent)
\* ------------------------------------------------------------------------

StatusOpts == << JStr("ok"), JStr("invalid"), JStr("error"), JNull >>
PrivOpts ==
    << JStr(AdminStr),
       JArr(<<JStr(<<"u", "s", "e", "r">>), JStr(<<"s", "u", "p", "e", "r">> \o AdminStr)>>),
       JArr(<<JStr(<<"u", "s", "e", "r">>)>>),
       JNull >>
KeyOpts == << JStr("K1"), JStr("K2"), JStr(""), JNull >>
ReasonOpts == << JStr("Incorrect email address or password."), JNull >>

LoginBody(s, p, k, r) ==
    [status |-> StatusOpts[s], privileges |-> PrivOpts[p],
     api_key |-> KeyOpts[k], reason |-> ReasonOpts[r]]

\* ------------------------------------------------------------------------
\* State
\* ------------------------------------------------------------------------

VARIABLES
    apikey,      \* the package-level cached API key
    keyOwner,    \* the caller whose login stored the cached key (0: no key stored)
    client,      \* client[c]: the Client caller c uses
    pc,          \* pc[c]: where caller c is inside its library call
    cur,         \* cur[c]: the call caller c is in
    last,        \* the return made by the latest step (NoRet when it made none)
    loginCalls,  \* login requests handed to the HTTP transport
    loginOKs,    \* login responses that stored a non-empty key
    ops,         \* library calls begun
    crashed,     \* a panic has left the library
    cli          \* the command line process: flags, position, output, exit status

vars == <<apikey, keyOwner, client, pc, cur, last, loginCalls, loginOKs, ops, crashed, cli>>

NoReq == [method |-> "none"]
NoCall ==
    [op |-> "none", name |-> "", rtype |-> "", value |-> "", zone |-> "",
     login |-> FALSE, loginStatus |-> "(none)", loginReason |-> "",
     loginPriv |-> <<>>, req |-> NoReq, resp |-> NoBody]
NoCli == [pc |-> "off"]
NoRet == [caller |-> 0, call |-> NoCall, err |-> NoError, val |-> NoValue, out |-> NoBody]

\* New: the parsed URL and the credentials
New(apiUrl, email, password, totp_secret) ==
    [ApiUrl |-> <<apiUrl>>, email |-> email, password |-> password,
     totp_secret |-> totp_secret]

Init ==
    /\ apikey = ""
    /\ keyOwner = 0
    /\ \E t \in TotpSecrets \ {""} :
          client = (1 :> New(BaseUrl, "a@example.com", "pw1", t))
                   @@ (2 :> New(BaseUrl, "b@example.com", "pw2", ""))
    /\ pc = [c \in Callers |-> "idle"]
    /\ cur = [c \in Callers |-> NoCall]
    /\ last = NoRet
    /\ loginCalls = 0
    /\ loginOKs = 0
    /\ ops = 0
    /\ crashed = FALSE
    /\ cli = NoCli

\* ------------------------------------------------------------------------
\* The exported methods up to their first HTTP round trip
\* ------------------------------------------------------------------------

Ops == {"GetHosts", "AddHost", "UpdateHost", "DeleteHost", "GetZones", "GetZonefile"}

\* parameter checks that forget the value
ValidationError_NoValue(op, name, rtype, value) ==
    IF op \in {"AddHost", "UpdateHost"} /\ (name = "" \/ rtype = "")
    THEN <<"Missing parameters to ", op, ". all are required.", name, rtype, value>>
    ELSE IF op = "DeleteHost" /\ name = ""
    THEN <<"Missing parameter to ", op, ". Name is required.", name>>
    ELSE NoError

\* the parameter checks of AddHost, UpdateHost and DeleteHost
ValidationError(op, name, rtype, value) ==
    IF op \in {"AddHost", "UpdateHost"} /\ (name = "" \/ rtype = "" \/ value = "")
    THEN <<"Missing parameters to ", op, ". all are required.", name, rtype, value>>
    ELSE IF op = "DeleteHost" /\ name = ""
    THEN <<"Missing parameter to ", op, ". Name is required.", name>>
    ELSE NoError

Method(op) ==
    CASE op = "AddHost" -> "POST"
      [] op = "UpdateHost" -> "PUT"
      [] op = "DeleteHost" -> "DELETE"
      [] OTHER -> "GET"

RequestURL(cl, call) ==
    CASE call.op = "GetZones" -> JoinPath(cl.ApiUrl, <<"dns", "zones">>)
      [] call.op = "GetZonefile" -> JoinPath(cl.ApiUrl, <<"dns", "zonefile", call.zone>>)
      [] OTHER -> getApiWithPath(cl.ApiUrl, call.name, call.rtype)

\* a doLogin without the cache check: it logs in on every call
AlreadyLoggedIn_Never(key) == FALSE

\* doLogin, line 233: the cached key makes doLogin return at once
AlreadyLoggedIn(key) == key # ""

\* the call of caller c returns to its caller
Return(c, call, e, v, o) ==
    /\ pc' = [pc EXCEPT ![c] = "idle"]
    /\ cur' = [cur EXCEPT ![c] = NoCall]
    /\ last' = [caller |-> c, call |-> call, err |-> e, val |-> v, out |-> o]

\* doLogin from its entry to the first point where it waits: the cache
\* check, the TOTP code, the login request
EnterDoLogin(c, cl, call) ==
    IF AlreadyLoggedIn(apikey) THEN
        /\ pc' = [pc EXCEPT ![c] = "checkKey"]
        /\ cur' = [cur EXCEPT ![c] = call]
        /\ last' = NoRet
        /\ UNCHANGED loginCalls
    ELSE IF cl.totp_secret # "" /\ GenerateCode(cl.totp_secret).err # NoError THEN
        /\ Return(c, call, <<"Could not login: ", "Error generating TOTP token: ">>
                           \o GenerateCode(cl.totp_secret).err, NoValue, NoBody)
        /\ UNCHANGED loginCalls
    ELSE
        /\ pc' = [pc EXCEPT ![c] = "awaitLogin"]
        /\ cur' = [cur EXCEPT ![c] = [call EXCEPT !.login = TRUE]]
        /\ loginCalls' = loginCalls + 1
        /\ last' = NoRet

\* a doRequest that skips doLogin for the two zone queries
EnterDoRequest_ZonesSkipLogin(c, cl, call) ==
    IF call.op \in {"GetZones", "GetZonefile"} THEN
        /\ pc' = [pc EXCEPT ![c] = "sendReq"]
        /\ cur' = [cur EXCEPT ![c] = call]
        /\ last' = NoRet
        /\ UNCHANGED loginCalls
    ELSE EnterDoLogin(c, cl, call)

\* doRequest, lines 286-292: every method's request starts with doLogin
EnterDoRequest(c, cl, call) == EnterDoLogin(c, cl, call)

\* an exported method from its entry to the first point where it waits
Begin(c, cl, op, name, rtype, value, zone) ==
    /\ ~crashed
    /\ pc[c] = "idle"
    /\ ops < MaxOps
    /\ ops' = ops + 1
    /\ LET call == [NoCall EXCEPT !.op = op, !.name = name, !.rtype = rtype,
                                  !.value = value, !.zone = zone]
           verr == ValidationError(op, name, rtype, value)
       IN  IF verr # NoError THEN
               /\ Return(c, call, verr, NoValue, NoBody)
               /\ UNCHANGED loginCalls
           ELSE EnterDoRequest(c, cl, call)
    /\ UNCHANGED <<apikey, keyOwner, loginOKs, crashed>>

GetHosts(c) ==
    /\ \E name \in Names, rtype \in RTypes :
          Begin(c, client[c], "GetHosts", name, rtype, "", "")
    /\ UNCHANGED <<client, cli>>
AddHost(c) ==
    /\ \E name \in Names, rtype \in RTypes, value \in Values :
          Begin(c, client[c], "AddHost", name, rtype, value, "")
    /\ UNCHANGED <<client, cli>>
UpdateHost(c) ==
    /\ \E name \in Names, rtype \in RTypes, value \in Values :
          Begin(c, client[c], "UpdateHost", name, rtype, value, "")
    /\ UNCHANGED <<client, cli>>
DeleteHost(c) ==
    /\ \E name \in Names, rtype \in RTypes, value \in Values :
          Begin(c, client[c], "DeleteHost", name, rtype, value, "")
    /\ UNCHANGED <<client, cli>>
GetZones(c) ==
    /\ Begin(c, client[c], "GetZones", "", "", "", "")
    /\ UNCHANGED <<client, cli>>
GetZonefile(c) ==
    /\ \E zone \in Zones : Begin(c, client[c], "GetZonefile", "", "", "", zone)
    /\ UNCHANGED <<client, cli>>

\* ------------------------------------------------------------------------
\* The login round trip (doLogin, lines 250-284)
\* ------------------------------------------------------------------------

\* a doLogin that stores the key before it looks at the status and privileges
LoginOutcome_KeyFirst(body, key) ==
    LET status == GjsonString(body, "status")
        k == GjsonString(body, "api_key")
    IN  IF status = "ok" THEN
            IF ~Contains(GjsonChars(body, "privileges"), AdminStr)
            THEN [key |-> k, err |-> <<"Account does not have admin priveleges">>]
            ELSE [key |-> k, err |-> NoError]
        ELSE IF status = "invalid" THEN
            [key |-> k, err |-> <<"Invalid response: ", GjsonString(body, "reason")>>]
        ELSE [key |-> k, err |-> <<"Unforeseen return value: ", status>>]

\* doLogin after the body has been read: the new key and the error
LoginOutcome(body, key) ==
    LET status == GjsonString(body, "status")
    IN  IF status = "ok" THEN
            IF ~Contains(GjsonChars(body, "privileges"), AdminStr)
            THEN [key |-> key, err |-> <<"Account does not have admin priveleges">>]
            ELSE [key |-> GjsonString(body, "api_key"), err |-> NoError]
        ELSE IF status = "invalid" THEN
            [key |-> "", err |-> <<"Invalid response: ", GjsonString(body, "reason")>>]
        ELSE [key |-> "", err |-> <<"Unforeseen return value: ", status>>]

\* a panic unwinds out of the library call: nothing is returned
Panic(c, call) ==
    /\ crashed' = TRUE
    /\ pc' = [pc EXCEPT ![c] = "panicked"]
    /\ cur' = [cur EXCEPT ![c] = call]
    /\ last' = NoRet

\* http.DefaultClient.Do returned (nil, err): the deferred resp.Body.Close()
\* is evaluated before err is looked at and dereferences the nil response
LoginConnFail(c) ==
    /\ ~crashed
    /\ pc[c] = "awaitLogin"
    /\ Panic(c, [cur[c] EXCEPT !.loginStatus = "(connfail)"])
    /\ UNCHANGED <<apikey, keyOwner, client, loginCalls, loginOKs, ops, cli>>

\* io.ReadAll failed: doLogin returns the error, doRequest wraps it
LoginReadFail(c) ==
    /\ ~crashed
    /\ pc[c] = "awaitLogin"
    /\ Return(c, [cur[c] EXCEPT !.loginStatus = "(readfail)"],
              <<"Could not login: ", "unexpected EOF">>, NoValue, NoBody)
    /\ UNCHANGED <<apikey, keyOwner, client, loginCalls, loginOKs, ops, crashed, cli>>

LoginResponse(c) ==
    /\ ~crashed
    /\ pc[c] = "awaitLogin"
    /\ \E s \in 1..Len(StatusOpts), p \in 1..Len(PrivOpts),
          k \in 1..Len(KeyOpts), r \in 1..Len(ReasonOpts) :
          LET body == LoginBody(s, p, k, r)
              o == LoginOutcome(body, apikey)
              call == [cur[c] EXCEPT !.loginStatus = GjsonString(body, "status"),
                                     !.loginPriv = GjsonChars(body, "privileges")]
              failed == [call EXCEPT !.loginReason = GjsonString(body, "reason")]
          IN  /\ apikey' = o.key
              /\ keyOwner' = IF o.key = "" THEN 0
                              ELSE IF o.err = NoError THEN c ELSE keyOwner
              /\ IF o.err # NoError
                 THEN /\ Return(c, failed, <<"Could not login: ">> \o o.err, NoValue, NoBody)
                      /\ UNCHANGED loginOKs
                 ELSE /\ pc' = [pc EXCEPT ![c] = "checkKey"]
                      /\ cur' = [cur EXCEPT ![c] = call]
                      /\ loginOKs' = IF o.key # "" THEN loginOKs + 1 ELSE loginOKs
                      /\ last' = NoRet
    /\ UNCHANGED <<client, loginCalls, ops, crashed, cli>>

\* ------------------------------------------------------------------------
\* doRequest after doLogin (lines 297-321)
\* ------------------------------------------------------------------------

\* a request authorised with the client's password instead of the key
BasicAuth_Password(cl, key) == <<cl.email, cl.password>>

\* line 306: Authorization: Basic base64(email:apikey)
BasicAuth(cl, key) == <<cl.email, key>>

\* a doRequest without the check of line 297
CheckKey_NoCheck(c) ==
    /\ ~crashed
    /\ pc[c] = "checkKey"
    /\ pc' = [pc EXCEPT ![c] = "sendReq"]
    /\ last' = NoRet
    /\ UNCHANGED cur
    /\ UNCHANGED <<apikey, keyOwner, client, loginCalls, loginOKs, ops, crashed, cli>>

\* line 297: the key is read again
CheckKey(c) ==
    /\ ~crashed
    /\ pc[c] = "checkKey"
    /\ IF apikey = ""
       THEN Return(c, cur[c], <<"Could not login">>, NoValue, NoBody)
       ELSE /\ pc' = [pc EXCEPT ![c] = "sendReq"]
            /\ last' = NoRet
            /\ UNCHANGED cur
    /\ UNCHANGED <<apikey, keyOwner, client, loginCalls, loginOKs, ops, crashed, cli>>

\* lines 301-308: the request is built with the key as it is now, and sent
SendReq(c) ==
    /\ ~crashed
    /\ pc[c] = "sendReq"
    /\ pc' = [pc EXCEPT ![c] = "awaitResp"]
    /\ cur' = [cur EXCEPT ![c].req =
                 [method |-> Method(cur[c].op),
                  url |-> RequestURL(client[c], cur[c]),
                  accept |-> "json",
                  auth |-> BasicAuth(client[c], apikey),
                  body |-> cur[c].value]]
    /\ last' = NoRet
    /\ UNCHANGED <<apikey, keyOwner, client, loginCalls, loginOKs, ops, crashed, cli>>

\* the same nil dereference as in doLogin, line 309
RespConnFail(c) ==
    /\ ~crashed
    /\ pc[c] = "awaitResp"
    /\ Panic(c, cur[c])
    /\ UNCHANGED <<apikey, keyOwner, client, loginCalls, loginOKs, ops, cli>>

RespReadFail(c) ==
    /\ ~crashed
    /\ pc[c] = "awaitResp"
    /\ Return(c, cur[c], <<"unexpected EOF">>, NoValue, NoBody)
    /\ UNCHANGED <<apikey, keyOwner, client, loginCalls, loginOKs, ops, crashed, cli>>

\* what each method makes of the body doRequest returned
MethodResult(op, body) ==
    CASE op = "GetHosts" -> unmarshalRecords(body) @@ [out |-> NoBody]
      [] op = "GetZones" -> unmarshalZones(body) @@ [out |-> NoBody]
      [] op = "GetZonefile" -> [val |-> Slice(<<body>>), err |-> NoError, out |-> NoBody]
      [] OTHER -> [val |-> NoValue, err |-> NoError, out |-> body]

OpResponse(c) ==
    /\ ~crashed
    /\ pc[c] = "awaitResp"
    /\ \E i \in 1..Len(OpBodies) :
          LET r == MethodResult(cur[c].op, OpBodies[i])
          IN  Return(c, [cur[c] EXCEPT !.resp = OpBodies[i]], r.err, r.val, r.out)
    /\ UNCHANGED <<apikey, keyOwner, client, loginCalls, loginOKs, ops, crashed, cli>>

\* ------------------------------------------------------------------------
\* Specifications
\* ------------------------------------------------------------------------

Idle == \A d \in Callers : pc[d] = "idle"

Step(c) ==
    \/ LoginConnFail(c)
    \/ LoginReadFail(c)
    \/ LoginResponse(c)
    \/ CheckKey(c)
    \/ SendReq(c)
    \/ RespConnFail(c)
    \/ RespReadFail(c)
    \/ OpResponse(c)

Call(c) ==
    \/ GetHosts(c)
    \/ AddHost(c)
    \/ UpdateHost(c)
    \/ DeleteHost(c)
    \/ GetZones(c)
    \/ GetZonefile(c)

\* calls made one after the other
Next == \E c \in Callers : (Idle /\ Call(c)) \/ Step(c)

Spec == Init /\ [][Next]_vars

\* calls made by two callers with no coordination
ConcCall(c) ==
    /\ ops < MaxConcOps
    /\ \/ GetZones(c)
       \/ GetZonefile(c)

NextConc == \E c \in Callers : ConcCall(c) \/ Step(c)

SpecConc == Init /\ [][NextConc]_vars

\* ------------------------------------------------------------------------
\* The command line front end (cmd/miabdns/main.go)
\* ------------------------------------------------------------------------

commands == <<"list", "add", "update", "delete", "zones", "zonefile">>

\* slices.Contains
SlicesContains(seq, x) == \E i \in 1..Len(seq) : seq[i] = x

\* values of the -command flag: the six commands, the empty string, others
CommandFlags == {"list", "add", "update", "delete", "zones", "zonefile", "", "bogus"}
Urls == {BaseUrl, ":"}

\* url.Parse rejects a URL without a scheme before the colon
UrlParse(u) ==
    IF u = ":" THEN [err |-> <<"parse \":\": missing protocol scheme">>]
    ELSE [err |-> NoError]

NoClient == New("", "", "", "")

InitCLI ==
    /\ apikey = ""
    /\ keyOwner = 0
    /\ client = [c \in Callers |-> NoClient]
    /\ pc = [c \in Callers |-> "idle"]
    /\ cur = [c \in Callers |-> NoCall]
    /\ last = NoRet
    /\ loginCalls = 0
    /\ loginOKs = 0
    /\ ops = 0
    /\ crashed = FALSE
    /\ \E command \in CommandFlags, url \in Urls, totp \in TotpSecrets,
          recordName \in Names, recordType \in RTypes, recordValue \in Values,
          zone \in Zones :
          cli = [pc |-> "start", command |-> command, url |-> url,
                 email |-> "a@example.com", password |-> "pw1", totp |-> totp,
                 recordName |-> recordName, recordType |-> recordType,
                 recordValue |-> recordValue, zone |-> zone,
                 exit |-> -1, out |-> <<>>]

\* the checks main and its helpers make before they call the library
CliValidation(f, command) ==
    IF command \in {"add", "update"}
       /\ (f.recordName = "" \/ f.recordType = "" \/ f.recordValue = "")
    THEN <<"Missing parameters to ", command, " command. all are required.",
           f.recordName, f.recordType, f.recordValue>>
    ELSE IF command = "delete" /\ (f.recordName = "" \/ f.recordType = "")
    THEN <<"Missing parameters to delete command. rname and rtype are required.">>
    ELSE IF command = "zonefile" /\ f.zone = ""
    THEN <<"Zone for which to retrieve the zonefile must be provided">>
    ELSE NoError

\* the library call each command makes
CliCall(f, command, cl) ==
    CASE command = "list" -> Begin(1, cl, "GetHosts", f.recordName, f.recordType, "", "")
      [] command = "add" ->
           Begin(1, cl, "AddHost", f.recordName, f.recordType, f.recordValue, "")
      [] command = "update" ->
           Begin(1, cl, "UpdateHost", f.recordName, f.recordType, f.recordValue, "")
      [] command = "delete" ->
           Begin(1, cl, "DeleteHost", f.recordName, f.recordType, f.recordValue, "")
      [] command = "zones" -> Begin(1, cl, "GetZones", "", "", "", "")
      [] command = "zonefile" -> Begin(1, cl, "GetZonefile", "", "", "", f.zone)

\* a panic nobody recovers ends a Go process with status 2
PanicExit == 2

\* what the process prints: a line of main, or a body printed as it came
Line(t) == [line |-> t, data |-> NoBody]
Data(b) == [line |-> <<>>, data |-> b]

\* main returns without a panic: status 0
CliExit(out) == cli' = [cli EXCEPT !.pc = "exited", !.exit = 0, !.out = out]

\* main panics
CliPanic == cli' = [cli EXCEPT !.pc = "exited", !.exit = PanicExit]

\* the usage branch of main, lines 43-46
UsageExit ==
    CliExit(<<Line(<<"The command argument must be a valid command: ">> \o commands)>>)

\* main from its entry to the library call (lines 40-84)
CLIMain ==
    /\ cli.pc = "start"
    /\ LET command == IF cli.command = "" THEN "list" ELSE cli.command
           cl == New(cli.url, cli.email, cli.password, cli.totp)
       IN  IF ~SlicesContains(commands, command) THEN
               /\ UsageExit
               /\ UNCHANGED <<apikey, keyOwner, client, pc, cur, last, loginCalls, loginOKs, ops, crashed>>
           ELSE IF UrlParse(cli.url).err # NoError THEN
               /\ CliPanic
               /\ UNCHANGED <<apikey, keyOwner, client, pc, cur, last, loginCalls, loginOKs, ops, crashed>>
           ELSE IF CliValidation(cli, command) # NoError THEN
               /\ CliPanic
               /\ client' = [client EXCEPT ![1] = cl]
               /\ UNCHANGED <<apikey, keyOwner, pc, cur, last, loginCalls, loginOKs, ops, crashed>>
           ELSE
               /\ cli' = [cli EXCEPT !.pc = "calling", !.command = command]
               /\ client' = [client EXCEPT ![1] = cl]
               /\ CliCall(cli, command, cl)

\* printRecords, printZones, printZonefile and the confirmation lines; the
\* library itself prints the body it got for add, update and delete
CliOutput(command, f, r) ==
    CASE command = "list" ->
           <<Line(<<"Name", "Type", "Value">>)>> \o
           [i \in 1..Len(r.val.elems) |->
              Line(<<r.val.elems[i].QualifiedName, r.val.elems[i].RecordType,
                     r.val.elems[i].Value>>)]
      [] command = "add" -> <<Data(r.out), Line(<<"record added">>)>>
      [] command = "update" -> <<Data(r.out), Line(<<"record updated">>)>>
      [] command = "delete" -> <<Data(r.out), Line(<<"record deleted">>)>>
      [] command = "zones" ->
           [i \in 1..Len(r.val.elems) |-> Line(<<"Zone: ", r.val.elems[i]>>)]
      [] command = "zonefile" ->
           <<Line(<<"Zonefile for zone: ", f.zone>>)>> \o
           [i \in 1..Len(r.val.elems) |-> Data(r.val.elems[i])]

\* the library call has returned: main panics on an error, prints otherwise
CLIReturn ==
    /\ cli.pc = "calling"
    /\ pc[1] = "idle"
    /\ IF last.err # NoError THEN CliPanic
       ELSE CliExit(CliOutput(cli.command, cli, last))
    /\ UNCHANGED <<apikey, keyOwner, client, pc, cur, last, loginCalls, loginOKs, ops, crashed>>

\* the library call panicked: the panic ends the process
CLIAbort ==
    /\ cli.pc = "calling"
    /\ pc[1] = "panicked"
    /\ CliPanic
    /\ UNCHANGED <<apikey, keyOwner, client, pc, cur, last, loginCalls, loginOKs, ops, crashed>>

NextCLI ==
    \/ CLIMain
    \/ CLIReturn
    \/ CLIAbort
    \/ Step(1)

SpecCLI == InitCLI /\ [][NextCLI]_vars

\* ------------------------------------------------------------------------
\* Properties
\* ------------------------------------------------------------------------

\* the step begins a call of caller c to the method op
Begins(c, op) ==
    /\ pc[c] = "idle"
    /\ ops' = ops + 1
    /\ \/ cur'[c].op = op
       \/ last' # NoRet /\ last'.caller = c /\ last'.call.op = op

\* C1, as stated: in sequential use, once a login has succeeded exactly one
\* login request has been issued in total.
C1_OneLoginInTotal == loginOKs >= 1 => loginCalls = 1

\* C1, amended: in sequential use, once a login has succeeded (status ok,
\* admin privileges, non-empty api_key) no further login request is issued,
\* whatever operations follow; login requests that failed before it count too.
C1_NoLoginAfterSuccess == [][loginOKs >= 1 => loginCalls' = loginCalls]_vars

\* a later call has found the cached key and sent its request without a login
C1_Witness ==
    /\ loginOKs = 1
    /\ \E c \in Callers : cur[c].op # "none" /\ ~cur[c].login /\ cur[c].req # NoReq

\* C2: a login response with status "invalid" makes the call fail with an
\* error carrying the server's reason, with no operation request sent and the
\* cached key empty; a GetHosts call the same client makes next issues a new
\* login request.
C2_InvalidLogin ==
    /\ [](last.call.loginStatus = "invalid" =>
            /\ last.err = <<"Could not login: ", "Invalid response: ", last.call.loginReason>>
            /\ last.call.req = NoReq
            /\ apikey = "")
    /\ [][(last.call.loginStatus = "invalid" /\ Begins(last.caller, "GetHosts")) =>
            /\ loginCalls' = loginCalls + 1
            /\ pc'[last.caller] = "awaitLogin"]_vars

\* a call has just failed on an "invalid" login response that gave a reason
C2_Witness ==
    /\ last.call.loginStatus = "invalid"
    /\ last.call.loginReason = "Incorrect email address or password."
    /\ last.call.login

\* C3: a login response with status "ok" whose privileges do not contain
\* "admin" makes login fail, leaves the cached key empty whatever api_key came
\* with it, and the call sends no request of its own.
C3_NotAdmin ==
    (last.call.loginStatus = "ok" /\ ~Contains(last.call.loginPriv, AdminStr)) =>
        /\ last.err = <<"Could not login: ", "Account does not have admin priveleges">>
        /\ apikey = ""
        /\ last.call.req = NoReq

\* a call has just failed on an "ok" response of a non-admin account
C3_Witness ==
    /\ last.call.loginStatus = "ok"
    /\ last.call.loginPriv = <<"[", "\"", "u", "s", "e", "r", "\"", "]">>
    /\ last.err # NoError

\* an AddHost or UpdateHost call with an empty name, type or value
MissingParameter(call) ==
    /\ call.op \in {"AddHost", "UpdateHost"}
    /\ (call.name = "" \/ call.rtype = "" \/ call.value = "")

\* C4: AddHost and UpdateHost with an empty name, type or value return a
\* validation error with no login request and no operation request issued and
\* the cached key unchanged, in every state of the cache.
C4_Validation ==
    /\ [](/\ \A c \in Callers : ~MissingParameter(cur[c])
          /\ MissingParameter(last.call) =>
                /\ last.err = <<"Missing parameters to ", last.call.op,
                                ". all are required.", last.call.name,
                                last.call.rtype, last.call.value>>
                /\ ~last.call.login
                /\ last.call.req = NoReq)
    /\ [][MissingParameter(last'.call) =>
            /\ apikey' = apikey
            /\ loginCalls' = loginCalls
            /\ \A c \in Callers : cur'[c] = cur[c]]_vars

\* a validation error returned while a key is cached
C4_Witness ==
    /\ MissingParameter(last.call)
    /\ last.call.value = ""
    /\ last.call.name # ""
    /\ apikey # ""

\* C5, as stated: when the HTTP transport fails during the login request or
\* the operation request, the call returns the error to its caller as a value
\* and the process is not aborted.
C5_TransportErrorReturned == ~crashed /\ \A c \in Callers : pc[c] # "panicked"

\* C6: GetHosts returns the records and no error when the body decodes as a
\* record array; otherwise an error carrying the reason when the body decodes
\* as a status object; otherwise the decode error of the array attempt; and
\* never records together with an error.
C6_Classification ==
    (last.call.op = "GetHosts" /\ last.call.resp.k # "none") =>
        LET b == last.call.resp
            r == UnmarshalRecordSlice(b)
            e == UnmarshalAPIStatus(b)
        IN  /\ r.err = NoError => (last.err = NoError /\ last.val = r.val)
            /\ (r.err # NoError /\ e.err = NoError) =>
                  /\ last.err = <<"Error while decoding json: ", e.val.Reason>>
                  /\ last.val.nil
            /\ (r.err # NoError /\ e.err # NoError) =>
                  (last.err = r.err /\ last.val.nil)
            /\ ~(last.err # NoError /\ ~last.val.nil)
            /\ b = JObj([status |-> JStr("invalid"), reason |-> JStr("bad session")]) =>
                  last.err = <<"Error while decoding json: ", "bad session">>
            /\ b = JArr(<<RecordJSON>>) =>
                  /\ last.err = NoError
                  /\ Len(last.val.elems) = 1
                  /\ last.val.elems[1].QualifiedName = "h.example.com"
                  /\ last.val.elems[1].RecordType = "A"
                  /\ last.val.elems[1].Value = "1.2.3.4"
                  /\ last.val.elems[1].Zone = "example.com"
            /\ b.k = "text" => last.err = <<"json: syntax error">>

\* GetHosts has just failed on a status object and surfaced its reason
C6_Witness ==
    /\ last.call.op = "GetHosts"
    /\ last.call.resp.k = "object"
    /\ last.err = <<"Error while decoding json: ", "bad session">>

ZoneOps == {"GetZones", "GetZonefile"}

\* C7, as stated: GetZones and GetZonefile send their request without running
\* the login step, so they never cause a login request.
C7_ZonesNeverLogin == \A c \in Callers : cur[c].op \in ZoneOps => ~cur[c].login

\* C7, amended: all six methods, GetZones and GetZonefile included, run the
\* login step to completion before sending their own request: a call made
\* while no key was ever cached has issued a login request, no request is
\* sent while the login response is awaited, and a request is only sent with
\* a key cached, after an "ok" response if the call logged in itself.
C7_AllOpsLoginFirst ==
    \A c \in Callers :
        /\ (cur[c].op # "none" /\ loginOKs = 0) => cur[c].login
        /\ pc[c] = "awaitLogin" => (cur[c].login /\ cur[c].req = NoReq)
        /\ cur[c].req # NoReq =>
              /\ apikey # ""
              /\ cur[c].login => cur[c].loginStatus = "ok"

\* a GetZonefile call has logged in and then sent its request
C7_Witness ==
    \E c \in Callers :
        /\ cur[c].op = "GetZonefile"
        /\ cur[c].login
        /\ cur[c].req # NoReq

\* the command the process was asked for succeeded
CommandSucceeded ==
    /\ SlicesContains(commands, cli.command)
    /\ last.caller = 1
    /\ last.err = NoError

\* C8, as stated: the process ends with status 0 only when the command
\* succeeded, and with a non-zero status on a usage error, on a missing
\* required flag and on an error of the library call.
C8_ExitStatus == cli.pc = "exited" => (cli.exit = 0 <=> CommandSucceeded)

\* an API error payload: a status object whose status is not "ok", with a reason
IsErrorPayload(b) ==
    /\ b.k = "object"
    /\ "status" \in DOMAIN b.v
    /\ "reason" \in DOMAIN b.v
    /\ b.v["status"] # JStr("ok")

\* C9, as stated: when the server answers an add, update or delete request
\* with an API error payload, the method returns an error, so the process
\* does not print its confirmation line and does not end with status 0.
C9_ErrorPayloadIsError ==
    (/\ cli.pc = "exited"
     /\ cli.command \in {"add", "update", "delete"}
     /\ last.caller = 1
     /\ IsErrorPayload(last.call.resp)) =>
        /\ cli.exit # 0
        /\ cli.out = <<>>

\* C10: with two uncoordinated callers a login request is issued only by a
\* caller that read an empty key, and nothing keeps a second caller from
\* reading it empty while the first login is under way: two login requests
\* that both succeed are reachable (the witness).
C10_LoginOnlyOnEmptyKey == [][loginCalls' > loginCalls => apikey = ""]_vars

\* two calls, two login requests, both answered "ok" with a key
C10_Witness == ops = 2 /\ loginCalls = 2 /\ loginOKs = 2

\* caller c is inside a library call that has passed its parameter checks
InProgress(c) == pc[c] \in {"awaitLogin", "checkKey", "sendReq", "awaitResp"}

\* C11: the cached key is shared by every client. While the key stored by
\* one client's login is cached, a call made through another client, built
\* with a different email and password, sends no login request, and the
\* request of its operation is authorised with its own email and the key
\* the first client obtained.
C11_KeySharedByClients ==
    \A c \in Callers :
        (InProgress(c) /\ keyOwner \notin {0, c}) =>
            /\ client[c].email # client[keyOwner].email
            /\ client[c].password # client[keyOwner].password
            /\ ~cur[c].login
            /\ pc[c] # "awaitLogin"
            /\ pc[c] = "awaitResp" =>
                   cur[c].req.auth = <<client[c].email, apikey>>

\* client 2 has sent its request with its own email and the key of client 1
\* without a login of its own
C11_Witness ==
    /\ keyOwner = 1
    /\ loginCalls = 1
    /\ pc[2] = "awaitResp"
    /\ ~cur[2].login
    /\ cur[2].req.auth = <<"b@example.com", apikey>>
    /\ apikey \in {"K1", "K2"}

C13_KeyStable ==
    /\ [](\A c \in Callers : pc[c] = "awaitLogin" => apikey = "")
    /\ [][apikey # "" => apikey' = apikey]_vars

\* an operation after the login was answered with an error payload, a
\* rejected session included, and the key is still the one cached before it
C13_Witness ==
    /\ apikey \in {"K1", "K2"}
    /\ ~last.call.login
    /\ last.call.req # NoReq
    /\ last.call.req.auth[2] = apikey
    /\ IsErrorPayload(last.call.resp)
    /\ ops >= 2

====
